---- MODULE Spec2Model ----
(***************************************************************************)
(* The durable collections of disk.py: diskset, and the abstract queue     *)
(* with its two instantiations pagequeue and diskqueue, as used by several *)
(* threads of one process.  One durable object is under analysis at a      *)
(* time (kind); its storage file is the table rows, which outlives the     *)
(* object, and its cached length is the in-memory counter self.length.     *)
(***************************************************************************)
EXTENDS Integers, Sequences, FiniteSets, TLC

(* ------------------------------ bounds --------------------------------- *)

\* rows ever inserted into the table during one behaviour
MaxEnq == 4
\* largest batch_size handed to get_batch
MaxBatch == 2
\* longest list handed to extend
MaxExtend == 3

Threads == {"t1", "t2"}
\* diskset holds one sqlite3 connection, created in __init__ with the default
\* check_same_thread: only the constructing thread can use it successfully.
Owner == "t1"

Kinds == {"pagequeue", "diskqueue", "diskset"}
QueueKinds == {"pagequeue", "diskqueue"}

(* ------------------------- Python / SQLite values ---------------------- *)

\* A Python value that is either a str or an int (the slug of an entity item,
\* which SQLite stores with the same storage class: TEXT or INTEGER).
PyStr(s) == [type |-> "str", s |-> s, i |-> 0]
PyInt(i) == [type |-> "int", s |-> "", i |-> i]

SLUG_MAPPING ==
    [slug \in {"track", "album", "artist", "playlist", "concert", "user",
               "episode", "show", "genre"} |->
        CASE slug = "track" -> 0
          [] slug = "album" -> 1
          [] slug = "artist" -> 2
          [] slug = "playlist" -> 3
          [] slug = "concert" -> 4
          [] slug = "user" -> 5
          [] slug = "episode" -> 6
          [] slug = "show" -> 7
          [] slug = "genre" -> 8]

INVERSE_SLUG_MAPPING ==
    [value \in {SLUG_MAPPING[key] : key \in DOMAIN SLUG_MAPPING} |->
        CHOOSE key \in DOMAIN SLUG_MAPPING : SLUG_MAPPING[key] = value]

\* Inputs the callers draw from.
Pages == {"a", "b"}
Slugs == {"track", "album"}
Hashes == {"h1"}
EntityItems == {<<PyStr(slug), hash>> : slug \in Slugs, hash \in Hashes}
\* a category outside the enumeration, for put
BadItems == {<<PyStr("podcast"), "h1">>}
Elements == {"a", "b"}

ItemsOf(k) ==
    CASE k = "pagequeue" -> Pages
      [] k = "diskqueue" -> EntityItems
      [] k = "diskset" -> Elements

RECURSIVE SeqsUpTo(_, _)
SeqsUpTo(S, n) ==
    IF n = 0 THEN {<<>>}
    ELSE LET shorter == SeqsUpTo(S, n - 1)
         IN shorter \cup {Append(q, x) : q \in {p \in shorter : Len(p) = n - 1}, x \in S}

Range(q) == {q[i] : i \in 1..Len(q)}
Min(a, b) == IF a < b THEN a ELSE b

(* ------------------------------ the table ------------------------------ *)
\* A table is a set of rows [id, ord, val]: id is the rowid (the id INTEGER
\* PRIMARY KEY column of a queue table, the implicit rowid of elements), val
\* the payload columns, and ord the position of the insert among all inserts
\* (history only, no statement reads it).

Ids(table) == {r.id : r \in table}

\* SQLite's rowid for a row inserted without one into a table whose key is
\* INTEGER PRIMARY KEY (no AUTOINCREMENT): one more than the largest rowid
\* in the table, 1 for an empty table.
NewRowidReuse(table) == CHOOSE n \in 1..(Cardinality(table) + 1) : n \notin Ids(table)
NewRowid(table) ==
    IF table = {} THEN 1
    ELSE 1 + (CHOOSE m \in Ids(table) : \A n \in Ids(table) : n <= m)

\* The column a uniqueness constraint covers: element TEXT PRIMARY KEY in
\* diskset; the queue tables constrain nothing but id.
UniqueValNone(k) == FALSE
UniqueVal(k) == k = "diskset"

\* INSERT INTO t (cols) VALUES (?)
Insert(table, val, ord) ==
    table \cup {[id |-> NewRowid(table), ord |-> ord, val |-> val]}

\* INSERT OR IGNORE INTO t (cols) VALUES (?): the row is skipped when it
\* conflicts with a uniqueness constraint of the table.
InsertOrIgnore(k, table, val, ord) ==
    IF UniqueVal(k) /\ \E r \in table : r.val = val
    THEN table
    ELSE Insert(table, val, ord)

\* executemany of INSERT OR IGNORE over a list, in list order; ord0 is the
\* number of inserts made before.
RECURSIVE InsertMany(_, _, _, _)
InsertMany(k, table, vals, ord0) ==
    IF vals = <<>> THEN table
    ELSE InsertMany(k, InsertOrIgnore(k, table, Head(vals), ord0 + 1), Tail(vals), ord0 + 1)

\* SELECT ... ORDER BY id
RECURSIVE OrderById(_)
OrderById(table) ==
    IF table = {} THEN <<>>
    ELSE LET first == CHOOSE r \in table : \A o \in table : r.id <= o.id
         IN <<first>> \o OrderById(table \ {first})

\* SELECT ... LIMIT n: the first n rows of the scan of the table, which
\* SQLite walks in rowid order.
LimitAll(table, n) == OrderById(table)
Limit(table, n) ==
    LET scan == OrderById(table) IN SubSeq(scan, 1, Min(n, Len(scan)))

\* SELECT COUNT(*)
sizeZero(table) == 0
size(table) == Cardinality(table)


(* --------------------- the abstract methods of queue ------------------- *)

\* insert: the row payload to store for an item, or KeyError
pagequeue_insert(item) == [err |-> "none", val |-> item]
diskqueue_insert(item) ==
    LET slug == item[1] IN
    IF slug.type = "str" /\ slug.s \in DOMAIN SLUG_MAPPING
    THEN [err |-> "none", val |-> <<PyInt(SLUG_MAPPING[slug.s]), item[2]>>]
    ELSE [err |-> "KeyError", val |-> item]
insert(k, item) ==
    IF k = "pagequeue" THEN pagequeue_insert(item) ELSE diskqueue_insert(item)

\* sample: the row with the least id, as the tuple get hands on: its id and
\* the item get returns (item[1] of a two-column row, item[1:] otherwise)
FirstRow(table) == CHOOSE r \in table : \A o \in table : r.id <= o.id
pagequeue_sample(table) ==
    IF table = {} THEN [err |-> "none", found |-> <<>>, item |-> <<>>]
    ELSE [err |-> "none", found |-> <<FirstRow(table)>>, item |-> <<FirstRow(table).val>>]
diskqueue_sample(table) ==
    IF table = {} THEN [err |-> "none", found |-> <<>>, item |-> <<>>]
    ELSE LET row == FirstRow(table)
             slug == row.val[1]
         IN IF slug.type = "int" /\ slug.i \in DOMAIN INVERSE_SLUG_MAPPING
            THEN [err |-> "none", found |-> <<row>>,
                  item |-> << <<PyStr(INVERSE_SLUG_MAPPING[slug.i]), row.val[2]>> >>]
            ELSE [err |-> "KeyError", found |-> <<>>, item |-> <<>>]
sample(k, table) ==
    IF k = "pagequeue" THEN pagequeue_sample(table) ELSE diskqueue_sample(table)

\* select: SELECT 1 FROM queue WHERE <payload columns> = ?
pagequeue_select(table, page) == {r \in table : r.val = page}
diskqueue_select(table, item) ==
    {r \in table : r.val[1] = item[1] /\ r.val[2] = item[2]}
select(k, table, item) ==
    IF k = "pagequeue" THEN pagequeue_select(table, item) ELSE diskqueue_select(table, item)

\* the distinct values of a sequence, in order of first occurrence
RECURSIVE Distinct(_)
Distinct(q) ==
    IF q = <<>> THEN <<>>
    ELSE LET front == Distinct(SubSeq(q, 1, Len(q) - 1))
             last == q[Len(q)]
         IN IF last \in Range(front) THEN front ELSE Append(front, last)

Vals(q) == [i \in 1..Len(q) |-> q[i].val]

\* get_batch: the rows it deletes and what it returns, from the rows its
\* SELECT ... LIMIT scanned.  pagequeue returns the set ids of the scanned
\* pages (held here as a duplicate-free sequence) and deletes every row whose
\* page is in it; diskqueue returns the scanned columns as they are stored
\* and deletes the scanned ids.
pagequeue_get_batch(table, scanned) ==
    [deleted |-> {r \in table : r.val \in Range(Vals(scanned))},
     ids |-> Cardinality(Range(Vals(scanned))),
     returned |-> Distinct(Vals(scanned))]
diskqueue_get_batchDistinct(table, scanned) ==
    [deleted |-> {r \in table : r.id \in {s.id : s \in Range(scanned)}},
     ids |-> Cardinality(Range(Vals(scanned))),
     returned |-> Vals(scanned)]
diskqueue_get_batch(table, scanned) ==
    [deleted |-> {r \in table : r.id \in {s.id : s \in Range(scanned)}},
     ids |-> Cardinality({s.id : s \in Range(scanned)}),
     returned |-> Vals(scanned)]
batch(k, table, scanned) ==
    IF k = "pagequeue" THEN pagequeue_get_batch(table, scanned)
    ELSE diskqueue_get_batch(table, scanned)

\* __iter__: what the generator yields for a fetched row
pagequeue_iter(row) == row.val
diskqueue_iter(row) == row.val
yield(k, row) == IF k = "pagequeue" THEN pagequeue_iter(row) ELSE diskqueue_iter(row)


(* ------------------------------- state --------------------------------- *)

VARIABLES
    kind,        \* the class of the durable object: pagequeue, diskqueue, diskset
    rows,        \* the table of its storage file
    length,      \* self.length
    queue_lock,  \* self.queue_lock: the thread holding it, or "none"
    pc,          \* where each thread is in its call
    frame,       \* each thread's call and its arguments
    local,       \* the rows the call has read: get's sampled row, get_batch's scan
    result,      \* what the call hands back
    gen,         \* each thread's suspended __iter__ generator
    enq,         \* history: the number of items handed to put/add/extend
    pending,     \* history: the items enqueued and not handed back since
    opened       \* history: how far the cached length of the object closed
                 \* before was from the row count __init__ found

vars == <<kind, rows, length, queue_lock, pc, frame, local, result, gen, enq,
          pending, opened>>

\* The objects and the locals of __main__ in main.py (the crawl pipeline).  A
\* durable object is held as [rows, length]: the table of its file and its
\* cached length.
VARIABLES
    page_input_queue,   \* pagequeue queues/pages/input.db: the frontier
    page_output_queue,  \* pagequeue queues/pages/output.db: the discovered links
    result_queue,       \* diskqueue queues/results.db: the discovered entities
    visited,            \* diskset pages.db
    results,            \* results[key]: diskset <key>.db
    batch_size,         \* batch_size
    site,               \* the site: the entities on the page of each identifier,
                        \* once the page has been requested
    iteration,          \* the order in which this build iterates sets and dicts
    stage,              \* where __main__ is
    todo,               \* the turns the running for loop has left
    mem,                \* the locals of the loop bodies
    hist,               \* history: the fetches made and what became of them
    restarts            \* history: the times the process was started again

pipeline == <<page_input_queue, page_output_queue, result_queue, visited, results,
              batch_size, site, iteration, stage, todo, mem, hist, restarts>>

NoFrame == [op |-> "none", items |-> <<>>, n |-> 0, block |-> FALSE, delete |-> FALSE]
NoResult == [status |-> "none", val |-> <<>>, flag |-> FALSE, spun |-> FALSE]
NoGen == [active |-> FALSE, rest |-> <<>>]

Call(name, items) == [NoFrame EXCEPT !.op = name, !.items = items]
Ok(val) == [NoResult EXCEPT !.status = "ok", !.val = val]

\* The item as its enqueuer wrote it: the category name for a stored code.
Canon(val) ==
    IF kind = "diskqueue" /\ val[1].type = "int" /\ val[1].i \in DOMAIN INVERSE_SLUG_MAPPING
    THEN <<PyStr(INVERSE_SLUG_MAPPING[val[1].i]), val[2]>>
    ELSE val

\* the thread is in its caller's code and holds no generator
Free(t) == pc[t] = "idle" /\ ~gen[t].active

\* A page identifier slug + '/' + id, held as the pair of its two parts.
page(slug, id) == <<slug, id>>
\* "track/6fxbtIuYVYl37ynRqEfMcc"
seed == page("track", "s")
\* the page identifiers of the site
track_a == page("track", "a")
album_b == page("album", "b")
Nodes == {seed, track_a, album_b}

\* the page of an identifier no request has been made for
Unrequested == [known |-> FALSE, html |-> {}]

\* a durable object as its constructor leaves it: self.length = self.size()
Open(table) == [rows |-> table, length |-> size(table)]

NoMem == [pages |-> {}, all_pages |-> <<>>, all_results |-> <<>>,
          new_urls |-> <<>>, unique_items |-> <<>>]
NoHist == [handed |-> [n \in Nodes |-> 0], transient |-> {}, failed |-> {},
           persisted |-> {}, faults |-> 0]

\* no pipeline runs: the durable object of kind is used on its own
NotRunning ==
    /\ page_input_queue = Open({}) /\ page_output_queue = Open({})
    /\ result_queue = Open({}) /\ visited = Open({})
    /\ results = [key \in Slugs |-> Open({})]
    /\ batch_size = 1
    /\ site = [n \in Nodes |-> Unrequested]
    /\ iteration = <<>>
    /\ stage = "off" /\ todo = 0 /\ mem = NoMem /\ hist = NoHist /\ restarts = 0

Init ==
    /\ kind \in Kinds
    /\ rows = {}
    /\ length = size({})
    /\ queue_lock = "none"
    /\ pc = [t \in Threads |-> "idle"]
    /\ frame = [t \in Threads |-> NoFrame]
    /\ local = [t \in Threads |-> <<>>]
    /\ result = [t \in Threads |-> NoResult]
    /\ gen = [t \in Threads |-> NoGen]
    /\ enq = 0
    /\ pending = {}
    /\ opened = 0
    /\ NotRunning

\* with self.queue_lock: the call starts once the lock is free
Enter(t, at, call) ==
    /\ kind \in QueueKinds /\ Free(t) /\ queue_lock = "none"
    /\ queue_lock' = t
    /\ pc' = [pc EXCEPT ![t] = at]
    /\ frame' = [frame EXCEPT ![t] = call]
    /\ UNCHANGED <<pipeline, kind, rows, length, local, result, gen, enq, pending, opened>>

\* The with blocks are left: the lock is released, and the value or the
\* exception reaches the caller.
return(t) ==
    /\ pc[t] = "return"
    /\ queue_lock' = IF queue_lock = t THEN "none" ELSE queue_lock
    /\ pc' = [pc EXCEPT ![t] = "idle"]
    /\ frame' = [frame EXCEPT ![t] = NoFrame]
    /\ local' = [local EXCEPT ![t] = <<>>]
    /\ result' = [result EXCEPT ![t] = NoResult]
    /\ UNCHANGED <<pipeline, kind, rows, length, gen, enq, pending, opened>>

(* ------------------------------ queue.put ------------------------------ *)

put_call(t, item) ==
    /\ enq < MaxEnq
    /\ Enter(t, "put", Call("put", <<item>>))

\* BEGIN; self.insert(cursor, item): INSERT, COMMIT, length += 1; on an
\* exception ROLLBACK and raise.
put_insertCounted(t) ==
    /\ pc[t] = "put"
    /\ LET item == frame[t].items[1]
           ins == insert(kind, item)
       IN IF ins.err = "none"
          THEN /\ rows' = Insert(rows, ins.val, enq + 1)
               /\ enq' = enq + 1
               /\ pending' = pending \cup {item}
               /\ result' = [result EXCEPT ![t] = Ok(<<>>)]
          ELSE /\ result' = [result EXCEPT ![t] = [NoResult EXCEPT !.status = ins.err]]
               /\ UNCHANGED <<rows, enq, pending>>
    /\ length' = length + 1
    /\ pc' = [pc EXCEPT ![t] = "return"]
    /\ UNCHANGED <<pipeline, kind, queue_lock, frame, local, gen, opened>>
put_insert(t) ==
    /\ pc[t] = "put"
    /\ LET item == frame[t].items[1]
           ins == insert(kind, item)
       IN IF ins.err = "none"
          THEN /\ rows' = Insert(rows, ins.val, enq + 1)
               /\ length' = length + 1
               /\ enq' = enq + 1
               /\ pending' = pending \cup {item}
               /\ result' = [result EXCEPT ![t] = Ok(<<>>)]
          ELSE /\ result' = [result EXCEPT ![t] = [NoResult EXCEPT !.status = ins.err]]
               /\ UNCHANGED <<rows, length, enq, pending>>
    /\ pc' = [pc EXCEPT ![t] = "return"]
    /\ UNCHANGED <<pipeline, kind, queue_lock, frame, local, gen, opened>>

\* The INSERT or the COMMIT of insert raises sqlite3.Error (disk full, file
\* locked by another process): except Exception: ROLLBACK, raise; length is
\* incremented only after the COMMIT.
put_error(t) ==
    /\ pc[t] = "put"
    /\ insert(kind, frame[t].items[1]).err = "none"
    /\ result' = [result EXCEPT ![t] = [NoResult EXCEPT !.status = "sqlite3.Error"]]
    /\ pc' = [pc EXCEPT ![t] = "return"]
    /\ UNCHANGED <<pipeline, kind, rows, length, queue_lock, frame, local, gen, enq,
                   pending, opened>>

(* ------------------------------ queue.get ------------------------------ *)

get_call(t, block, del) ==
    Enter(t, "get", [Call("get", <<>>) EXCEPT !.block = block, !.delete = del])

\* BEGIN; item = self.sample(cursor).  No row: ROLLBACK, then continue (the
\* with blocks are left, so the lock is released, and the loop starts over)
\* or return None.  An exception of sample: ROLLBACK and raise.
get_sample(t) ==
    /\ pc[t] = "get"
    /\ LET s == sample(kind, rows) IN
       IF s.err # "none"
       THEN /\ result' = [result EXCEPT ![t] = [@ EXCEPT !.status = s.err]]
            /\ pc' = [pc EXCEPT ![t] = "return"]
            /\ UNCHANGED <<local, queue_lock>>
       ELSE IF s.found = <<>>
       THEN /\ UNCHANGED local
            /\ IF frame[t].block
               THEN /\ pc' = [pc EXCEPT ![t] = "get_retry"]
                    /\ result' = [result EXCEPT ![t] = [@ EXCEPT !.spun = TRUE]]
                    /\ queue_lock' = "none"
               ELSE /\ pc' = [pc EXCEPT ![t] = "return"]
                    /\ result' = [result EXCEPT ![t] = [@ EXCEPT !.status = "None"]]
                    /\ UNCHANGED queue_lock
       ELSE /\ local' = [local EXCEPT ![t] = s.found]
            /\ result' = [result EXCEPT ![t] = [@ EXCEPT !.val = s.item]]
            /\ pc' = [pc EXCEPT ![t] = "get_found"]
            /\ UNCHANGED queue_lock
    /\ UNCHANGED <<pipeline, kind, rows, length, frame, gen, enq, pending, opened>>

\* the next turn of the while loop: with self.queue_lock
get_retry(t) ==
    /\ pc[t] = "get_retry" /\ queue_lock = "none"
    /\ queue_lock' = t
    /\ pc' = [pc EXCEPT ![t] = "get"]
    /\ UNCHANGED <<pipeline, kind, rows, length, frame, local, result, gen, enq, pending, opened>>

\* queue.delete: DELETE FROM queue WHERE id = ?, COMMIT, length -= 1
delete(table, id) == {r \in table : r.id # id}

\* if delete: self.delete(cursor, item[0]); return the item
get_delete(t) ==
    /\ pc[t] = "get_found"
    /\ IF frame[t].delete
       THEN /\ rows' = delete(rows, local[t][1].id)
            /\ length' = length - 1
            /\ pending' = pending \ {Canon(v) : v \in Range(result[t].val)}
       ELSE UNCHANGED <<rows, length, pending>>
    /\ result' = [result EXCEPT ![t] = [@ EXCEPT !.status = "ok"]]
    /\ pc' = [pc EXCEPT ![t] = "return"]
    /\ UNCHANGED <<pipeline, kind, queue_lock, frame, local, gen, enq, opened>>

(* ---------------------------- get_batch -------------------------------- *)

get_batch_call(t, n) ==
    Enter(t, "get_batch", [Call("get_batch", <<>>) EXCEPT !.n = n])

\* BEGIN; SELECT ... FROM queue LIMIT ?; fetchall
get_batch_select(t) ==
    /\ pc[t] = "get_batch"
    /\ local' = [local EXCEPT ![t] = Limit(rows, frame[t].n)]
    /\ pc' = [pc EXCEPT ![t] = "get_batch_delete"]
    /\ UNCHANGED <<pipeline, kind, rows, length, queue_lock, frame, result, gen, enq, pending, opened>>

\* DELETE FROM queue WHERE ... IN (...); commit; length -= len(ids); return
get_batch_delete(t) ==
    /\ pc[t] = "get_batch_delete"
    /\ LET b == batch(kind, rows, local[t]) IN
       /\ rows' = rows \ b.deleted
       /\ length' = length - b.ids
       /\ result' = [result EXCEPT ![t] = Ok(b.returned)]
       /\ pending' = pending \ {Canon(v) : v \in Range(b.returned)}
    /\ pc' = [pc EXCEPT ![t] = "return"]
    /\ UNCHANGED <<pipeline, kind, queue_lock, frame, local, gen, enq, opened>>

(* ------------------------------ extend --------------------------------- *)

\* if not items: return
extend_empty(t) ==
    /\ kind \in QueueKinds /\ Free(t)
    /\ pc' = [pc EXCEPT ![t] = "return"]
    /\ frame' = [frame EXCEPT ![t] = Call("extend", <<>>)]
    /\ result' = [result EXCEPT ![t] = [NoResult EXCEPT !.status = "None"]]
    /\ UNCHANGED <<pipeline, kind, rows, length, queue_lock, local, gen, enq, pending, opened>>

extend_call(t, items) ==
    /\ items # <<>>
    /\ enq + Len(items) <= MaxEnq
    /\ Enter(t, "extend", Call("extend", items))

\* BEGIN; executemany(INSERT OR IGNORE ..., items); commit; length += len(items)
extend_insert(t) ==
    /\ pc[t] = "extend"
    /\ rows' = InsertMany(kind, rows, frame[t].items, enq)
    /\ length' = length + Len(frame[t].items)
    /\ enq' = enq + Len(frame[t].items)
    /\ pending' = pending \cup Range(frame[t].items)
    /\ result' = [result EXCEPT ![t] = Ok(<<>>)]
    /\ pc' = [pc EXCEPT ![t] = "return"]
    /\ UNCHANGED <<pipeline, kind, queue_lock, frame, local, gen, opened>>

(* --------------------------- __contains__ ------------------------------ *)

contains_call(t, item) == Enter(t, "contains", Call("contains", <<item>>))

\* cursor = self.select(connection, item); return cursor.fetchone() is not None
contains_select(t) ==
    /\ pc[t] = "contains"
    /\ result' = [result EXCEPT ![t] =
                    [Ok(<<>>) EXCEPT !.flag = (select(kind, rows, frame[t].items[1]) # {})]]
    /\ pc' = [pc EXCEPT ![t] = "return"]
    /\ UNCHANGED <<pipeline, kind, rows, length, queue_lock, frame, local, gen, enq, pending, opened>>

(* ----------------------------- __iter__ -------------------------------- *)
\* __iter__ is a generator: its body runs from the first next() on, inside
\* with self.queue_lock, and is suspended at each yield with control back in
\* the caller (pc idle, gen active, the yielded value in result).

\* the first next(): acquire the lock, BEGIN, SELECT ... ORDER BY id, fetchall
iter_call(t) == Enter(t, "iter", Call("iter", <<>>))

iter_fetch(t) ==
    /\ pc[t] = "iter"
    /\ LET fetched == OrderById(rows) IN
       IF fetched = <<>>
       THEN /\ result' = [result EXCEPT ![t] = [NoResult EXCEPT !.status = "StopIteration"]]
            /\ pc' = [pc EXCEPT ![t] = "return"]
            /\ UNCHANGED <<local, gen>>
       ELSE /\ result' = [result EXCEPT ![t] = Ok(<<yield(kind, Head(fetched))>>)]
            /\ local' = [local EXCEPT ![t] = <<Head(fetched)>>]
            /\ gen' = [gen EXCEPT ![t] = [active |-> TRUE, rest |-> Tail(fetched)]]
            /\ pc' = [pc EXCEPT ![t] = "idle"]
    /\ UNCHANGED <<pipeline, kind, rows, length, queue_lock, frame, enq, pending, opened>>

\* a later next(): yield the next fetched row, or leave the with blocks
iter_next(t) ==
    /\ pc[t] = "idle" /\ gen[t].active
    /\ IF gen[t].rest = <<>>
       THEN /\ result' = [result EXCEPT ![t] = [NoResult EXCEPT !.status = "StopIteration"]]
            /\ local' = [local EXCEPT ![t] = <<>>]
            /\ gen' = [gen EXCEPT ![t] = NoGen]
            /\ pc' = [pc EXCEPT ![t] = "return"]
       ELSE /\ result' = [result EXCEPT ![t] = Ok(<<yield(kind, Head(gen[t].rest))>>)]
            /\ local' = [local EXCEPT ![t] = <<Head(gen[t].rest)>>]
            /\ gen' = [gen EXCEPT ![t] = [active |-> TRUE, rest |-> Tail(gen[t].rest)]]
            /\ UNCHANGED pc
    /\ UNCHANGED <<pipeline, kind, rows, length, queue_lock, frame, enq, pending, opened>>

\* the caller drops the generator before it is exhausted (break): its
\* GeneratorExit leaves the with blocks
iter_close(t) ==
    /\ pc[t] = "idle" /\ gen[t].active
    /\ gen' = [gen EXCEPT ![t] = NoGen]
    /\ result' = [result EXCEPT ![t] = [NoResult EXCEPT !.status = "GeneratorExit"]]
    /\ local' = [local EXCEPT ![t] = <<>>]
    /\ pc' = [pc EXCEPT ![t] = "return"]
    /\ UNCHANGED <<pipeline, kind, rows, length, queue_lock, frame, enq, pending, opened>>

\* The loop body calls a method of the same queue that takes the lock (put,
\* extend, get, get_batch, contains, size, iteration).  The call waits at with
\* self.queue_lock for the lock its own generator holds; threading.Lock is
\* not reentrant and the generator resumes only when this thread asks for
\* the next element, so the wait does not end.
nested_call(t) ==
    /\ pc[t] = "idle" /\ gen[t].active
    /\ pc' = [pc EXCEPT ![t] = "blocked"]
    /\ frame' = [frame EXCEPT ![t] = Call("nested", <<>>)]
    /\ UNCHANGED <<pipeline, kind, rows, length, queue_lock, local, result, gen, enq, pending, opened>>

(* ------------------------- close and reopen ---------------------------- *)

\* queue.close: connection = self.get_connection(); connection.close(),
\* with no lock taken (diskset.close: self.conn.close()).  The thread's
\* handle is gone.
close(t) ==
    /\ Free(t)
    /\ kind = "diskset" => t = Owner
    /\ pc' = [pc EXCEPT ![t] = "closed"]
    /\ frame' = [frame EXCEPT ![t] = NoFrame]
    /\ result' = [result EXCEPT ![t] = NoResult]
    /\ UNCHANGED <<pipeline, kind, rows, length, queue_lock, local, gen, enq, pending, opened>>

\* __init__ of a new object on the same file, once the old one is closed
\* and no call on it is in progress: self.length = self.size()
reopen ==
    /\ \E t \in Threads : pc[t] = "closed"
    /\ \A t \in Threads : pc[t] \in {"idle", "closed"} /\ ~gen[t].active
    /\ length' = size(rows)
    /\ queue_lock' = "none"
    /\ pc' = [t \in Threads |-> "idle"]
    /\ frame' = [t \in Threads |-> NoFrame]
    /\ local' = [t \in Threads |-> <<>>]
    /\ result' = [t \in Threads |-> NoResult]
    /\ opened' = length - Cardinality(rows)
    /\ UNCHANGED <<pipeline, kind, rows, gen, enq, pending>>

(* ------------------------------ diskset -------------------------------- *)
\* The calls of the constructing thread; each runs to its end before the
\* next one starts.  frame and result keep the last call.

\* INSERT OR IGNORE; commit; length += 1
diskset_add(element) ==
    /\ kind = "diskset" /\ pc[Owner] = "idle"
    /\ enq < MaxEnq
    /\ rows' = InsertOrIgnore(kind, rows, element, enq + 1)
    /\ length' = length + 1
    /\ enq' = enq + 1
    /\ pending' = pending \cup {element}
    /\ frame' = [frame EXCEPT ![Owner] = Call("add", <<element>>)]
    /\ result' = [result EXCEPT ![Owner] = Ok(<<>>)]
    /\ UNCHANGED <<pipeline, kind, queue_lock, pc, local, gen, opened>>

\* BEGIN; executemany(INSERT OR IGNORE ...); commit; length += len(elements)
diskset_extend(elements) ==
    /\ kind = "diskset" /\ pc[Owner] = "idle"
    /\ enq + Len(elements) <= MaxEnq
    /\ rows' = InsertMany(kind, rows, elements, enq)
    /\ length' = length + Len(elements)
    /\ enq' = enq + Len(elements)
    /\ pending' = pending \cup Range(elements)
    /\ frame' = [frame EXCEPT ![Owner] = Call("extend", elements)]
    /\ result' = [result EXCEPT ![Owner] = Ok(<<>>)]
    /\ UNCHANGED <<pipeline, kind, queue_lock, pc, local, gen, opened>>

\* SELECT 1 FROM elements WHERE element = ?
diskset_contains(element) ==
    /\ kind = "diskset" /\ pc[Owner] = "idle"
    /\ frame' = [frame EXCEPT ![Owner] = Call("contains", <<element>>)]
    /\ result' = [result EXCEPT ![Owner] =
                    [Ok(<<>>) EXCEPT !.flag = (\E r \in rows : r.val = element)]]
    /\ UNCHANGED <<pipeline, kind, rows, length, queue_lock, pc, local, gen, enq, pending, opened>>

(* --------------------------- specification ----------------------------- *)

PutItems == IF kind = "diskqueue" THEN EntityItems \cup BadItems ELSE ItemsOf(kind)

Next ==
    \/ \E t \in Threads, item \in PutItems : put_call(t, item)
    \/ \E t \in Threads : put_insert(t)
    \/ \E t \in Threads : put_error(t)
    \/ \E t \in Threads, block \in BOOLEAN, del \in BOOLEAN : get_call(t, block, del)
    \/ \E t \in Threads : get_sample(t)
    \/ \E t \in Threads : get_retry(t)
    \/ \E t \in Threads : get_delete(t)
    \/ \E t \in Threads, n \in 0..MaxBatch : get_batch_call(t, n)
    \/ \E t \in Threads : get_batch_select(t)
    \/ \E t \in Threads : get_batch_delete(t)
    \/ \E t \in Threads : extend_empty(t)
    \/ \E t \in Threads, items \in SeqsUpTo(ItemsOf(kind), MaxExtend) : extend_call(t, items)
    \/ \E t \in Threads : extend_insert(t)
    \/ \E t \in Threads, item \in ItemsOf(kind) : contains_call(t, item)
    \/ \E t \in Threads : contains_select(t)
    \/ \E t \in Threads : iter_call(t)
    \/ \E t \in Threads : iter_fetch(t)
    \/ \E t \in Threads : iter_next(t)
    \/ \E t \in Threads : iter_close(t)
    \/ \E t \in Threads : nested_call(t)
    \/ \E t \in Threads : close(t)
    \/ \E t \in Threads : return(t)
    \/ reopen
    \/ \E element \in Elements : diskset_add(element)
    \/ \E elements \in SeqsUpTo(Elements, MaxExtend) : diskset_extend(elements)
    \/ \E element \in Elements : diskset_contains(element)

Spec == Init /\ [][Next]_vars


(* ----------------------- the crawl pipeline: main.py ------------------- *)

\* largest batch_size the operator sets
MaxBatchSize == 2
\* times the process is killed and started again on the same root directory
MaxRestart == 1
\* fetches of one behaviour that do not come back with status 200
MaxFault == 1

\* the lists a Python set (or the keys of a dict) can be iterated into
RECURSIVE Lists(_)
Lists(S) ==
    IF S = {} THEN {<<>>}
    ELSE UNION {{<<x>> \o l : l \in Lists(S \ {x})} : x \in S}

\* the orders in which a build may iterate the identifiers: every two of
\* them come in either order
Iterations == {<<seed, track_a, album_b>>, <<album_b, track_a, seed>>}

\* a set of page identifiers as the list its iteration gives
Listed(S) == SelectSeq(iteration, LAMBDA n : n \in S)

\* a set of hashes as the list its iteration gives
ListedIds(ids) ==
    LET listed == SelectSeq(iteration, LAMBDA n : n[2] \in ids)
    IN Distinct([i \in 1..Len(listed) |-> listed[i][2]])

\* the lists F[x] of the x of order, joined
RECURSIVE Joined(_, _)
Joined(order, F) ==
    IF order = <<>> THEN <<>> ELSE F[Head(order)] \o Joined(Tail(order), F)

status_messages == {429, 500, 503, 504}

\* What a request comes to: a response with its status, or an exception
\* raised by session.get or response.text.
Responses ==
    {[raised |-> FALSE, status |-> code] : code \in {200, 503, 404}}
        \cup {[raised |-> TRUE, status |-> 0]}

\* re.findall(page_expr, html): page_expr ends in ^\?, a start of string
\* after at least one matched character, so it matches nowhere.
page_expr_findall(html) == {}

\* process(url, html, code), html being the set of (slug, id) that slug_expr
\* and user_expr find in it: the pair (pages, results), or None after a
\* transient status.
process(html, code) ==
    IF code = 200
    THEN [value |-> "pair",
          pages |-> page_expr_findall(html) \cup {page(e[1], e[2]) : e \in html},
          results |-> html]
    ELSE IF code \in status_messages
    THEN [value |-> "None", pages |-> {}, results |-> {}]
    ELSE [value |-> "pair", pages |-> {}, results |-> {}]

\* for slug, identifiers in outputs.items(): for id in identifiers:
\* all_results.append((slug, id)): the entities of one output, slug by slug
Items(entities) ==
    LET listed == Listed(entities)
        keys == Distinct([i \in 1..Len(listed) |-> listed[i][1]])
        items == Joined(keys, [key \in Range(keys) |->
                                 SelectSeq(listed, LAMBDA e : e[1] = key)])
    IN [i \in 1..Len(items) |-> <<PyStr(items[i][1]), items[i][2]>>]

\* the position a row inserted next gets
LastOrd(table) == NewRowid(table) - 1

\* queue.put on the object q of class k
Put(k, q, item) ==
    LET ins == insert(k, item) IN
    IF ins.err = "none"
    THEN [rows |-> Insert(q.rows, ins.val, LastOrd(q.rows) + 1), length |-> q.length + 1]
    ELSE q

\* pagequeue.extend / diskqueue.extend
Extend(k, q, items) ==
    IF items = <<>> THEN q
    ELSE [rows |-> InsertMany(k, q.rows, items, LastOrd(q.rows)),
          length |-> q.length + Len(items)]

\* pagequeue.get_batch / diskqueue.get_batch: the object after the call and
\* what the call returns
GetBatch(k, q, n) ==
    LET b == batch(k, q.rows, Limit(q.rows, n)) IN
    [q |-> [rows |-> q.rows \ b.deleted, length |-> q.length - b.ids],
     returned |-> b.returned]

\* diskset.__contains__ and diskset.extend
Contains(set, element) == \E r \in set.rows : r.val = element
SetExtend(set, elements) ==
    [rows |-> InsertMany("diskset", set.rows, elements, LastOrd(set.rows)),
     length |-> set.length + Len(elements)]

\* the durable object of Spec is not in use
Unused ==
    /\ kind = "pagequeue" /\ rows = {} /\ length = 0 /\ queue_lock = "none"
    /\ pc = [t \in Threads |-> "idle"]
    /\ frame = [t \in Threads |-> NoFrame]
    /\ local = [t \in Threads |-> <<>>]
    /\ result = [t \in Threads |-> NoResult]
    /\ gen = [t \in Threads |-> NoGen]
    /\ enq = 0 /\ pending = {} /\ opened = 0

\* an empty root directory, the objects of lines 97-102 constructed
PipelineInit ==
    /\ Unused
    /\ page_input_queue = Open({}) /\ page_output_queue = Open({})
    /\ result_queue = Open({}) /\ visited = Open({})
    /\ results = [key \in Slugs |-> Open({})]
    /\ batch_size \in 1..MaxBatchSize
    /\ site = [n \in Nodes |-> Unrequested]
    /\ iteration \in Iterations
    /\ stage = "start" /\ todo = 0 /\ mem = NoMem /\ hist = NoHist /\ restarts = 0

\* if len(page_input_queue) == 0: page_input_queue.put(seed)
startup ==
    /\ stage = "start"
    /\ page_input_queue' =
          IF page_input_queue.length = 0
          THEN Put("pagequeue", page_input_queue, seed)
          ELSE page_input_queue
    /\ stage' = "fetch"
    /\ UNCHANGED <<vars, page_output_queue, result_queue, visited, results, batch_size,
                   site, iteration, todo, mem, hist, restarts>>

\* for _ in range(length // batch_size + 1), of each of the three phases
TurnsFloor(q) == q.length \div batch_size
Turns(q) == q.length \div batch_size + 1

(* FETCH *)
fetch ==
    /\ stage = "fetch"
    /\ todo' = Turns(page_input_queue)
    /\ stage' = "fetch_batch"
    /\ UNCHANGED <<vars, page_input_queue, page_output_queue, result_queue, visited,
                   results, batch_size, site, iteration, mem, hist, restarts>>

\* pages = page_input_queue.get_batch(min(batch_size, len(page_input_queue)))
fetch_get_batch ==
    /\ stage = "fetch_batch" /\ todo > 0
    /\ LET got == GetBatch("pagequeue", page_input_queue,
                           Min(batch_size, page_input_queue.length))
       IN /\ page_input_queue' = got.q
          /\ mem' = [NoMem EXCEPT !.pages = Range(got.returned)]
    /\ stage' = "scrape"
    /\ UNCHANGED <<vars, page_output_queue, result_queue, visited, results, batch_size,
                   site, iteration, todo, hist, restarts>>

fetch_end ==
    /\ stage = "fetch_batch" /\ todo = 0
    /\ stage' = "dedup"
    /\ UNCHANGED <<vars, page_input_queue, page_output_queue, result_queue, visited,
                   results, batch_size, site, iteration, todo, mem, hist, restarts>>

\* asyncio.run(scrape(pages)) and the loop over its outputs: every page of
\* the batch is requested; an exception of a request is raised again by
\* scrape (raise e) and ends the program; otherwise the values that are not
\* None come in the order the requests complete, and all_pages and
\* all_results are built from them.
scrape ==
    /\ stage = "scrape"
    /\ \E response \in [mem.pages -> Responses], html \in [mem.pages -> SUBSET Nodes] :
         LET faulty == {p \in mem.pages : response[p].raised \/ response[p].status # 200}
             value == [p \in mem.pages |-> process(html[p], response[p].status)]
             outputs == {p \in mem.pages : value[p].value # "None"}
         IN /\ hist.faults + Cardinality(faulty) <= MaxFault
            /\ \A p \in mem.pages :
                  IF p \in faulty THEN html[p] = {}
                  ELSE site[p].known => html[p] = site[p].html
            /\ site' = [n \in Nodes |->
                          IF n \in mem.pages \ faulty
                          THEN [known |-> TRUE, html |-> html[n]] ELSE site[n]]
            /\ hist' = [hist EXCEPT
                          !.handed = [n \in Nodes |->
                                        IF n \in mem.pages THEN Min(@[n] + 1, 2) ELSE @[n]],
                          !.transient = @ \cup {p \in faulty : response[p].status \in status_messages},
                          !.failed = @ \cup {p \in faulty : response[p].status \notin status_messages},
                          !.faults = @ + Cardinality(faulty)]
            /\ IF \E p \in mem.pages : response[p].raised
               THEN /\ stage' = "raised"
                    /\ mem' = NoMem
               ELSE /\ stage' = "fetch_output"
                    /\ \E order \in Lists(outputs) :
                          mem' = [mem EXCEPT
                                    !.all_pages =
                                        Joined(order, [p \in outputs |-> Listed(value[p].pages)]),
                                    !.all_results =
                                        Joined(order, [p \in outputs |-> Items(value[p].results)])]
    /\ UNCHANGED <<vars, page_input_queue, page_output_queue, result_queue, visited,
                   results, batch_size, iteration, todo, restarts>>

\* page_output_queue.extend(all_pages)
fetch_extend_pages ==
    /\ stage = "fetch_output"
    /\ page_output_queue' = Extend("pagequeue", page_output_queue, mem.all_pages)
    /\ stage' = "fetch_result"
    /\ UNCHANGED <<vars, page_input_queue, result_queue, visited, results, batch_size,
                   site, iteration, todo, mem, hist, restarts>>

\* result_queue.extend(all_results), the end of the turn
fetch_extend_results ==
    /\ stage = "fetch_result"
    /\ result_queue' = Extend("diskqueue", result_queue, mem.all_results)
    /\ hist' = [hist EXCEPT !.persisted = @ \cup mem.pages]
    /\ mem' = NoMem
    /\ todo' = todo - 1
    /\ stage' = "fetch_batch"
    /\ UNCHANGED <<vars, page_input_queue, page_output_queue, visited, results,
                   batch_size, site, iteration, restarts>>

(* DEDUP *)
dedup ==
    /\ stage = "dedup"
    /\ todo' = Turns(page_output_queue)
    /\ stage' = "dedup_batch"
    /\ UNCHANGED <<vars, page_input_queue, page_output_queue, result_queue, visited,
                   results, batch_size, site, iteration, mem, hist, restarts>>

\* the urls the DEDUP filter keeps, in the order the set urls is iterated
NewUrlsAll(order) == order
NewUrls(order) == SelectSeq(order, LAMBDA url : ~Contains(visited, url))

\* urls = page_output_queue.get_batch(...); new_urls: the urls not in visited
dedup_get_batch ==
    /\ stage = "dedup_batch" /\ todo > 0
    /\ LET got == GetBatch("pagequeue", page_output_queue,
                           Min(batch_size, page_output_queue.length))
       IN /\ page_output_queue' = got.q
          /\ mem' = [NoMem EXCEPT !.new_urls = NewUrls(Listed(Range(got.returned)))]
    /\ stage' = "dedup_visited"
    /\ UNCHANGED <<vars, page_input_queue, result_queue, visited, results, batch_size,
                   site, iteration, todo, hist, restarts>>

\* visited.extend(new_urls)
dedup_extend_visited ==
    /\ stage = "dedup_visited"
    /\ visited' = SetExtend(visited, mem.new_urls)
    /\ stage' = "dedup_input"
    /\ UNCHANGED <<vars, page_input_queue, page_output_queue, result_queue, results,
                   batch_size, site, iteration, todo, mem, hist, restarts>>

\* page_input_queue.extend(new_urls), the end of the turn
dedup_extend_input ==
    /\ stage = "dedup_input"
    /\ page_input_queue' = Extend("pagequeue", page_input_queue, mem.new_urls)
    /\ mem' = NoMem
    /\ todo' = todo - 1
    /\ stage' = "dedup_batch"
    /\ UNCHANGED <<vars, page_output_queue, result_queue, visited, results, batch_size,
                   site, iteration, hist, restarts>>

dedup_end ==
    /\ stage = "dedup_batch" /\ todo = 0
    /\ stage' = "aggregate"
    /\ UNCHANGED <<vars, page_input_queue, page_output_queue, result_queue, visited,
                   results, batch_size, site, iteration, todo, mem, hist, restarts>>

(* AGGREGATE *)
aggregate ==
    /\ stage = "aggregate"
    /\ todo' = Turns(result_queue)
    /\ stage' = "aggregate_batch"
    /\ UNCHANGED <<vars, page_input_queue, page_output_queue, result_queue, visited,
                   results, batch_size, site, iteration, mem, hist, restarts>>

\* unique_items of the rows of a batch: for each slug, in the order the
\* slugs come first, the hashes not in results[slug]
UniqueItems(returned) ==
    LET fresh == SelectSeq(returned, LAMBDA item : ~Contains(results[item[1].s], item[2]))
        keys == Distinct([i \in 1..Len(fresh) |-> fresh[i][1].s])
    IN [i \in 1..Len(keys) |->
          [slug |-> keys[i],
           identifiers |-> {item[2] : item \in {f \in Range(fresh) : f[1].s = keys[i]}}]]

\* slugs, hashes = result_queue.get_batch(...); unique_items
aggregate_get_batch ==
    /\ stage = "aggregate_batch" /\ todo > 0
    /\ LET got == GetBatch("diskqueue", result_queue,
                           Min(batch_size, result_queue.length))
       IN /\ result_queue' = got.q
          /\ mem' = [NoMem EXCEPT !.unique_items = UniqueItems(got.returned)]
    /\ stage' = "aggregate_extend"
    /\ UNCHANGED <<vars, page_input_queue, page_output_queue, visited, results,
                   batch_size, site, iteration, todo, hist, restarts>>

\* results[slug].extend(identifiers), for the next slug of unique_items
aggregate_extend ==
    /\ stage = "aggregate_extend" /\ mem.unique_items # <<>>
    /\ LET next == Head(mem.unique_items) IN
       results' = [results EXCEPT ![next.slug] = SetExtend(@, ListedIds(next.identifiers))]
    /\ mem' = [mem EXCEPT !.unique_items = Tail(@)]
    /\ UNCHANGED <<vars, page_input_queue, page_output_queue, result_queue, visited,
                   batch_size, site, iteration, stage, todo, hist, restarts>>

\* the end of the turn
aggregate_turn ==
    /\ stage = "aggregate_extend" /\ mem.unique_items = <<>>
    /\ mem' = NoMem
    /\ todo' = todo - 1
    /\ stage' = "aggregate_batch"
    /\ UNCHANGED <<vars, page_input_queue, page_output_queue, result_queue, visited,
                   results, batch_size, site, iteration, hist, restarts>>

aggregate_end ==
    /\ stage = "aggregate_batch" /\ todo = 0
    /\ stage' = "report"
    /\ UNCHANGED <<vars, page_input_queue, page_output_queue, result_queue, visited,
                   results, batch_size, site, iteration, todo, mem, hist, restarts>>

\* the two prints of the round (len of each result set, len of each queue);
\* round += 1 is not kept, it is only printed
report ==
    /\ stage = "report"
    /\ stage' = "fetch"
    /\ UNCHANGED <<vars, page_input_queue, page_output_queue, result_queue, visited,
                   results, batch_size, site, iteration, todo, mem, hist, restarts>>

\* The process ends where it is (an operator interrupt, a kill, or the
\* exception scrape raised) and is started again on the same root: the
\* files are as the commits left them, lines 97-102 construct the objects.
restart ==
    /\ stage # "start" /\ restarts < MaxRestart
    /\ page_input_queue' = Open(page_input_queue.rows)
    /\ page_output_queue' = Open(page_output_queue.rows)
    /\ result_queue' = Open(result_queue.rows)
    /\ visited' = Open(visited.rows)
    /\ results' = [key \in Slugs |-> Open(results[key].rows)]
    /\ stage' = "start" /\ todo' = 0 /\ mem' = NoMem
    /\ restarts' = restarts + 1
    /\ UNCHANGED <<vars, batch_size, site, iteration, hist>>

PipelineNext ==
    \/ startup
    \/ fetch \/ fetch_get_batch \/ scrape \/ fetch_extend_pages \/ fetch_extend_results
    \/ fetch_end
    \/ dedup \/ dedup_get_batch \/ dedup_extend_visited \/ dedup_extend_input \/ dedup_end
    \/ aggregate \/ aggregate_get_batch \/ aggregate_extend \/ aggregate_turn
    \/ aggregate_end
    \/ report
    \/ restart

PipelineSpec == PipelineInit /\ [][PipelineNext]_<<vars, pipeline>>


(* ------------------------------- claims -------------------------------- *)

Stored == {Canon(r.val) : r \in rows}
AtReturn(t, name) == pc[t] = "return" /\ frame[t].op = name
\* the step in which a removing get or a get_batch hands its rows back
Dequeues(t) ==
    /\ pc'[t] = "return"
    /\ \/ pc[t] = "get_found" /\ frame[t].delete
       \/ pc[t] = "get_batch_delete"

ExactlyOnceStep ==
    kind \in QueueKinds =>
        /\ \A t \in Threads :
              Dequeues(t) => \A v \in Range(result'[t].val) : Canon(v) \in pending
        /\ pending' \subseteq {Canon(r.val) : r \in rows'}

\* C1: exactly-once delivery on a queue used by several threads.  Every item
\* a removing get or a get_batch returns had been enqueued and not been
\* returned since (no item is returned by two dequeue calls), and every item
\* enqueued and not yet returned is still stored (none is lost).
C1_ExactlyOnce == [][ExactlyOnceStep]_vars

\* C2: put and extend suppress duplicates: the stored rows of a queue hold
\* no two equal items.
C2_NoDuplicateRows ==
    kind \in QueueKinds => \A r1, r2 \in rows : r1.val = r2.val => r1 = r2

SetSemanticsStep ==
    kind = "diskset" =>
        /\ {r.val : r \in rows'} = pending'
        /\ \A r1, r2 \in rows' : r1.val = r2.val => r1 = r2
        /\ frame'[Owner].op \in {"add", "extend"} /\ enq' # enq =>
              /\ enq' - enq = Len(frame'[Owner].items)
              /\ length' = length + Len(frame'[Owner].items)

ReopenStep ==
    (\E t \in Threads : pc[t] = "closed") /\ (\A t \in Threads : pc'[t] = "idle") =>
        /\ rows' = rows
        /\ length' = Cardinality(rows')

\* C4: a new object opened on the file of a closed one finds the rows that
\* were stored at the close, ids and so order included, and its cached
\* length is their number, whatever the closed object's length was.
C4_Reopen == [][ReopenStep]_vars

\* a page queue reopened with rows in it whose closed length had drifted
C4_Witness ==
    /\ kind = "pagequeue"
    /\ opened # 0
    /\ rows # {}
    /\ length = Cardinality(rows)
    /\ \A t \in Threads : pc[t] = "idle"

GetBatchStep ==
    \A t \in Threads :
        pc[t] = "get_batch_delete" /\ pc'[t] = "return" =>
          LET returned == result'[t].val IN
          IF Cardinality(rows) < frame[t].n
          THEN /\ rows' = {}
               /\ Range(returned) = {r.val : r \in rows}
               /\ kind = "diskqueue" => returned = Vals(OrderById(rows))
          ELSE /\ Len(returned) <= frame[t].n
               /\ \A r \in rows : r.val \notin Range(returned) => r \in rows'

\* C5: get_batch(n) on a queue with fewer than n rows returns exactly the
\* stored items (pagequeue: the set of the stored pages; diskqueue: the
\* stored columns row by row) and leaves the table empty; with n rows or
\* more it returns at most n items, and no row holding an item it did not
\* return is deleted.
C5_GetBatch == [][GetBatchStep]_vars

\* get_batch(n) has returned the rows of a queue that held fewer than n
C5_Witness ==
    \E t \in Threads :
        /\ AtReturn(t, "get_batch")
        /\ result[t].val # <<>>
        /\ Len(local[t]) < frame[t].n
        /\ rows = {}

\* C6: the ids of the stored rows are in the order of their inserts, and the
\* row get has sampled is the one inserted first among the stored rows.
C6_OldestFirst ==
    kind \in QueueKinds =>
        /\ \A r1, r2 \in rows : r1.ord < r2.ord <=> r1.id < r2.id
        /\ \A t \in Threads :
              pc[t] = "get_found" => \A r \in rows : local[t][1].ord <= r.ord

\* get has sampled the oldest row of a table that also holds a newer row
\* whose id is smaller than the number of inserts so far: rows were deleted
\* before it came (the queue was emptied and refilled, or a batch removal
\* took the newest rows), and the sampled row is still the older one
C6_Witness ==
    \E t \in Threads :
        /\ pc[t] = "get_found"
        /\ \E r \in rows : r.ord > local[t][1].ord /\ r.id < r.ord

\* C7: a blocking get that found the queue empty does not come back without
\* an item: it ends by returning one, and while it waits for its next
\* attempt it does not hold the lock.
C7_BlockingGet ==
    \A t \in Threads :
        /\ pc[t] = "get_retry" => queue_lock # t
        /\ AtReturn(t, "get") /\ frame[t].block /\ result[t].spun =>
              result[t].status = "ok" /\ Len(result[t].val) = 1

\* C8: lock discipline of a queue.  A thread inside the storage part of a
\* call holds the lock; a thread whose control is in its caller does not,
\* between the elements of an iteration included; no caller waits forever.
StoragePcs ==
    {"put", "extend", "get", "get_found", "get_batch", "get_batch_delete",
     "contains", "iter"}
C8_LockDiscipline ==
    kind \in QueueKinds =>
        \A t \in Threads :
            /\ pc[t] \in StoragePcs => queue_lock = t
            /\ pc[t] \in {"idle", "closed", "get_retry"} => queue_lock # t
            /\ pc[t] # "blocked"

\* C9: what get, get_batch and iteration hand back for a row of a diskqueue
\* is the item as it was enqueued, category name and identifier, and no
\* read raises.
Reads(t) ==
    \/ AtReturn(t, "get") \/ AtReturn(t, "get_batch")
    \/ pc[t] = "idle" /\ gen[t].active
C9_RoundTrip ==
    kind = "diskqueue" =>
        \A t \in Threads :
            Reads(t) =>
                /\ result[t].status # "KeyError"
                /\ result[t].val = [i \in 1..Len(local[t]) |-> Canon(local[t][i].val)]

\* C10: contains(item) is true exactly when a row for the item is stored.
C10_Contains ==
    kind \in QueueKinds =>
        \A t \in Threads :
            AtReturn(t, "contains") =>
                result[t].flag = (frame[t].items[1] \in Stored)

ScannedStep ==
    \A t \in Threads :
        pc[t] = "get_batch_delete" /\ pc'[t] = "return" =>
            length' = length - Len(local[t])

\* C17: get_batch lowers the cached length by the number of rows its SELECT
\* scanned, also when the scanned rows of a page queue hold one identifier
\* several times.
C17_ScannedDecrement == [][ScannedStep]_vars

PutFailureStep ==
    kind \in QueueKinds =>
        \A t \in Threads :
            /\ kind = "diskqueue" /\ pc[t] = "put" /\ pc'[t] = "return" =>
                  (frame[t].items[1] \in BadItems => result'[t].status = "KeyError")
            /\ pc[t] = "put" /\ pc'[t] = "return" /\ result'[t].status # "ok" =>
                  rows' = rows /\ length' = length
            /\ AtReturn(t, "put") /\ result[t].status # "ok" /\ pc'[t] = "idle" =>
                  rows' = rows /\ length' = length /\ queue_lock' = "none"

\* C18: a put that fails (an error of the storage during the insert, or a
\* category outside the enumeration, which raises KeyError) leaves the rows
\* and the cached length as they were, hands the error to the caller, and
\* the lock is free once the call has returned.
C18_PutFailure == [][PutFailureStep]_vars

\* a put of an unknown category has failed on an entity queue that holds
\* rows, and its error is on the way to the caller
C18_Witness ==
    \E t \in Threads :
        /\ AtReturn(t, "put")
        /\ result[t].status = "KeyError"
        /\ rows # {}
        /\ length = Cardinality(rows)

LengthStep ==
    kind \in QueueKinds =>
        /\ length' >= 0
        /\ length' >= Cardinality(rows')
        /\ kind = "diskqueue" => length' = Cardinality(rows')
        /\ length' - Cardinality(rows') > length - Cardinality(rows) =>
              \E t \in Threads :
                  /\ pc[t] = "get_batch_delete" /\ pc'[t] = "return"
                  /\ \E r1, r2 \in rows \ rows' : r1 # r2 /\ r1.val = r2.val

\* C19: after every step of put, extend, get and get_batch the cached length
\* of a queue is not negative and not below the number of stored rows; on a
\* diskqueue it equals that number; on a pagequeue the distance between the
\* two grows only in a get_batch that deletes several rows of one page.
C19_LengthBound == [][LengthStep]_vars

\* a get_batch on a page queue has left the cached length above the rows
C19_Witness ==
    \E t \in Threads :
        /\ kind = "pagequeue"
        /\ AtReturn(t, "get_batch")
        /\ length > Cardinality(rows)
        /\ rows # {}

(* ------------------------ claims on the pipeline ----------------------- *)

Elems(set) == {r.val : r \in set.rows}
Frontier == {r.val : r \in page_input_queue.rows}
Visited == Elems(visited)

\* the nodes the links of the requested pages lead to from S
RECURSIVE Reach(_)
Reach(S) ==
    LET further == S \cup UNION {site[n].html : n \in S}
    IN IF further = S THEN S ELSE Reach(further)
Reachable == Reach({seed})

\* every fetch so far came back with status 200 and the process ran on
Undisturbed == hist.faults = 0 /\ restarts = 0

\* C11: from empty storage, every fetch succeeding, at the end of a round
\* that leaves the frontier empty the visited set holds exactly the nodes
\* reachable from the seed (the seed among them), and the result set of each
\* category holds exactly the identifiers of that category found on those
\* nodes, one row each.
C11_CrawlClosure ==
    stage = "report" /\ page_input_queue.rows = {} /\ Undisturbed =>
        /\ Visited = Reachable
        /\ \A key \in Slugs :
              /\ Elems(results[key]) =
                    {e[2] : e \in {f \in UNION {site[n].html : n \in Reachable} : f[1] = key}}
              /\ \A r1, r2 \in results[key].rows : r1.val = r2.val => r1 = r2
        /\ \A r1, r2 \in visited.rows : r1.val = r2.val => r1 = r2

\* the pages found on the pages fetched so far
Discovered == UNION {site[n].html : n \in Nodes}

\* C12: when the fetch of one page X came back with a transient status and
\* every other fetch with 200, at the end of the round X is not in the
\* visited set and every other discovered page is.
C12_TransientAbsent ==
    /\ stage = "report" /\ restarts = 0
    /\ hist.failed = {} /\ Cardinality(hist.transient) = 1
    /\ \A n \in Nodes : hist.handed[n] <= 1
    =>
        \A X \in hist.transient :
            /\ X \notin Visited
            /\ Discovered \ {X} \subseteq Visited

\* C13: no page is handed to the fetch engine twice, restarts included:
\* every page in the frontier or fetched is in the visited set (the seed
\* too), and so is never put on the frontier again.
C13_FetchOnce ==
    \A n \in Nodes :
        /\ hist.handed[n] <= 1
        /\ n \in Frontier \/ hist.handed[n] > 0 => n \in Visited

\* the pages the running process holds between two commits: the batch being
\* fetched, the survivors being enqueued
InFlight == mem.pages \cup Range(mem.new_urls)

\* C14: killing the process anywhere and starting it again loses no work:
\* (every fetch succeeding) each page of the visited set has its fetch
\* output committed to the queues, or is a row of the frontier, or is held
\* by the running process on its way there.
C14_CrashSafe ==
    hist.faults = 0 =>
        \A p \in Visited : p \in hist.persisted \/ p \in Frontier \/ p \in InFlight

\* C15: a failure of one page's fetch (status, extraction, or an exception
\* of the request) does not end the batch: the program goes on, and the
\* batch output holds the pages and entities of every page of the batch
\* that was fetched with status 200.
C15_LocalFailure ==
    /\ stage # "raised"
    /\ stage = "fetch_output" =>
          \A p \in mem.pages \ (hist.transient \cup hist.failed) :
              /\ site[p].html \subseteq Range(mem.all_pages)
              /\ \A e \in site[p].html : <<PyStr(e[1]), e[2]>> \in Range(mem.all_results)

FetchStages == {"fetch", "fetch_batch", "scrape", "fetch_output", "fetch_result"}
DedupStages == {"dedup", "dedup_batch", "dedup_visited", "dedup_input"}
AggregateStages == {"aggregate", "aggregate_batch", "aggregate_extend"}
Phase(s) ==
    IF s \in FetchStages THEN "FETCH"
    ELSE IF s \in DedupStages THEN "DEDUP"
    ELSE IF s \in AggregateStages THEN "AGGREGATE"
    ELSE s

PhaseStep ==
    stage' \notin {"start", "raised"} =>
        /\ Phase(stage') # Phase(stage) =>
              \/ stage \in {"start", "report"} /\ Phase(stage') = "FETCH"
              \/ Phase(stage) = "FETCH" /\ Phase(stage') = "DEDUP"
                    /\ page_input_queue'.rows = {}
              \/ Phase(stage) = "DEDUP" /\ Phase(stage') = "AGGREGATE"
                    /\ page_output_queue'.rows = {}
              \/ Phase(stage) = "AGGREGATE" /\ stage' = "report"
                    /\ result_queue'.rows = {}
        /\ Phase(stage) = "FETCH" => UNCHANGED <<visited, results>>
        /\ Phase(stage) = "DEDUP" => UNCHANGED <<result_queue, results>>
        /\ Phase(stage) = "AGGREGATE" =>
              UNCHANGED <<page_input_queue, page_output_queue, visited>>

\* C16: the phases of a round follow one another in the order FETCH, DEDUP,
\* AGGREGATE, each touching only its own objects, and each ends with its
\* queue drained: no row in the frontier when FETCH ends, none in the
\* discovered queue when DEDUP ends, none in the entity queue when AGGREGATE
\* ends, whatever the rows, the batch size and the cached length were.
C16_Phases == [][PhaseStep]_<<vars, pipeline>>

\* DEDUP has ended with the discovered queue drained although its cached
\* length, left above the row count by a batch with duplicate rows, says 1
C16_Witness ==
    /\ stage = "aggregate"
    /\ page_output_queue.rows = {}
    /\ page_output_queue.length > 0
    /\ visited.rows # {}

GrowStep ==
    /\ Visited \subseteq Elems(visited')
    /\ visited'.length = Cardinality(visited'.rows)
    /\ \A key \in Slugs :
          /\ Elems(results[key]) \subseteq Elems(results'[key])
          /\ results'[key].length = Cardinality(results'[key].rows)

\* C20: no step of the pipeline, a restart included, removes an element of
\* the visited set or of a result set, and after every step the cached
\* length of each of these sets is its number of stored rows (so the sizes
\* the report prints are the numbers of recorded entities).
C20_SetsGrow == [][GrowStep]_<<vars, pipeline>>

\* a report after every page was discovered again at least once: all three
\* pages visited, both tracks and the album recorded
C20_Witness ==
    /\ stage = "report"
    /\ visited.length = 3
    /\ results["track"].length = 2
    /\ results["album"].length = 1
    /\ page_output_queue.length > 0

====
